---- MODULE Spec2Model ----
(***************************************************************************)
(* Water Demand Forecast API (backend/main.py).                            *)
(*                                                                         *)
(* Units.  Every physical quantity is an integer number of thousandths:    *)
(* temperatures in milli-degrees Fahrenheit, precipitation in milli-inch,  *)
(* production and demand in milli-MG.  round(x, 1) is then rounding to a   *)
(* multiple of 100 and round(x, 2) rounding to a multiple of 10, both      *)
(* half-to-even as Python's round does.                                    *)
(*                                                                         *)
(* Dates.  A civil date is its day of the month in January 2024 (1 January *)
(* 2024 is a Monday), so weekday(d) = (d - 1) % 7, dayofyear = d and the   *)
(* month is January.  A date STRING is a record [form, day]: strftime      *)
(* writes the form "YYYY-MM-DD" and strptime accepts only that form.       *)
(***************************************************************************)
EXTENDS Integers, Sequences, FiniteSets, TLC

VARIABLES
    MODEL_LOADED,     \* main.py:51/54
    model,            \* main.py:45
    scaler,           \* main.py:46
    feature_columns,  \* main.py:47
    residual_std,     \* main.py:48
    historical_data,  \* main.py:49 (the Production_MG column)
    now,              \* the civil date at UTC-6 that datetime.now(CENTRAL_TIMEZONE) reads
    pc,               \* per request: position in its handler
    endpoint,         \* per request: the route being served
    outcome,          \* per request: what the weather provider call produced
    sim_today,        \* per request: `today` read by generate_simulated_weather (0: not read)
    weather_data,     \* per request: local of get_forecast (main.py:356)
    pred,             \* per request: what generate_predictions did (main.py:357)
    today,            \* per request: local `today` of get_forecast (main.py:360), 0 before
    forecasts,        \* per request: local `forecasts` of get_forecast (main.py:361)
    response          \* per request: what the HTTP caller receives

shared == <<MODEL_LOADED, model, scaler, feature_columns, residual_std, historical_data>>
locals == <<endpoint, outcome, sim_today, weather_data, pred, today, forecasts, response>>
vars == <<MODEL_LOADED, model, scaler, feature_columns, residual_std, historical_data,
          now, pc, endpoint, outcome, sim_today, weather_data, pred, today, forecasts,
          response>>

----------------------------------------------------------------------------
(* Bounds *)

NumRequests == 2      \* requests that may be in flight together
MaxTicks == 1         \* midnights the clock may pass
MaxDays == 2          \* longest `daily.time` array the provider returns

Requests == 1..NumRequests
ClockDays == 19..(19 + MaxTicks)          \* Friday 19 January 2024 onwards
ProviderDays == 18..21                    \* dates the provider may name (Thu..Sun)

\* a JSON value of a provider array: a number, null, or a string
Num(v) == [json |-> "number", v |-> v]
None == [json |-> "null", v |-> 0]
NotANumber == [json |-> "string", v |-> 0]

----------------------------------------------------------------------------
(* Python built-ins *)

\* nearest integer to n/d (d > 0), ties to the even one: round()
RoundDiv(n, d) ==
    LET q == n \div d
        r == n % d
    IN  IF 2 * r < d THEN q
        ELSE IF 2 * r > d THEN q + 1
        ELSE IF q % 2 = 0 THEN q ELSE q + 1

round1(x) == 100 * RoundDiv(x, 100)     \* round(x, 1)
round2(x) == 10 * RoundDiv(x, 10)       \* round(x, 2)

Max(a, b) == IF a >= b THEN a ELSE b
Min(a, b) == IF a <= b THEN a ELSE b

RECURSIVE Sum(_)
Sum(s) == IF s = <<>> THEN 0 ELSE Head(s) + Sum(Tail(s))

\* the last n elements of s: Series.tail(n)
LastN(s, n) == SubSeq(s, Max(1, Len(s) - n + 1), Len(s))

\* a mean as an exact fraction <<sum, count>>
Mean(s) == <<Sum(s), Len(s)>>

\* date.strftime("%Y-%m-%d")
strftime(d) == [form |-> "YYYY-MM-DD", day |-> d]

\* datetime.strptime(s, "%Y-%m-%d"): ValueError on any other form
strptime(s) ==
    IF s.form = "YYYY-MM-DD" THEN [ok |-> TRUE, day |-> s.day]
    ELSE [ok |-> FALSE, day |-> 0]

\* date.weekday(): 0 = Monday
weekday(d) == (d - 1) % 7

DayAbbrev == <<"MON", "TUE", "WED", "THU", "FRI", "SAT", "SUN">>

----------------------------------------------------------------------------
(* Classification tables *)

get_weather_condition(temp_max, precipitation) ==
    IF precipitation > 100 THEN
        IF precipitation > 500 THEN [condition |-> "Rainy", icon |-> "cloud_rain"]
        ELSE [condition |-> "Showers", icon |-> "sun_rain"]
    ELSE IF temp_max > 85000 THEN [condition |-> "Hot", icon |-> "sun"]
    ELSE IF temp_max > 75000 THEN [condition |-> "Warm", icon |-> "sun"]
    ELSE IF temp_max > 65000 THEN [condition |-> "Mild", icon |-> "sun_cloud"]
    ELSE IF temp_max > 50000 THEN [condition |-> "Cool", icon |-> "cloud"]
    ELSE [condition |-> "Cold", icon |-> "snowflake"]

get_demand_level_inclusive(demand) ==
    IF demand <= 12000 THEN [level |-> "Low", color |-> "#22C55E"]
    ELSE IF demand <= 16000 THEN [level |-> "Moderate", color |-> "#EAB308"]
    ELSE [level |-> "High", color |-> "#EF4444"]

get_demand_level(demand) ==
    IF demand < 12000 THEN [level |-> "Low", color |-> "#22C55E"]
    ELSE IF demand < 16000 THEN [level |-> "Moderate", color |-> "#EAB308"]
    ELSE [level |-> "High", color |-> "#EF4444"]

----------------------------------------------------------------------------
(* Weather Fetcher *)

\* the hardcoded table of generate_simulated_weather
patterns == <<
    [t_max |-> 58000, t_min |-> 35000, precip |-> 0,   condition |-> "Cool",    icon |-> "cloud"],
    [t_max |-> 68000, t_min |-> 45000, precip |-> 0,   condition |-> "Mild",    icon |-> "sun_cloud"],
    [t_max |-> 62000, t_min |-> 42000, precip |-> 0,   condition |-> "Cool",    icon |-> "cloud"],
    [t_max |-> 55000, t_min |-> 38000, precip |-> 100, condition |-> "Showers", icon |-> "sun_rain"],
    [t_max |-> 58000, t_min |-> 33000, precip |-> 0,   condition |-> "Cool",    icon |-> "cloud"],
    [t_max |-> 66000, t_min |-> 39000, precip |-> 0,   condition |-> "Mild",    icon |-> "sun_cloud"],
    [t_max |-> 70000, t_min |-> 48000, precip |-> 0,   condition |-> "Mild",    icon |-> "sun"],
    [t_max |-> 65000, t_min |-> 45000, precip |-> 200, condition |-> "Showers", icon |-> "cloud_rain"],
    [t_max |-> 55000, t_min |-> 40000, precip |-> 0,   condition |-> "Cool",    icon |-> "cloud"],
    [t_max |-> 60000, t_min |-> 42000, precip |-> 0,   condition |-> "Cool",    icon |-> "sun_cloud"] >>

\* generate_simulated_weather, with `today` the clock reading of line 189
generate_simulated_weather(clock) ==
    [i \in 1..Len(patterns) |->
        [date          |-> strftime(clock + (i - 1)),
         temp_max      |-> patterns[i].t_max,
         temp_min      |-> patterns[i].t_min,
         temp_mean     |-> (patterns[i].t_max + patterns[i].t_min) \div 2,
         precipitation |-> patterns[i].precip,
         condition     |-> patterns[i].condition,
         icon          |-> patterns[i].icon]]

\* arr[i] if i < len(arr) and arr[i] is not None else dflt   (i is 1-based here)
ValueOr(arr, i, dflt) == IF i <= Len(arr) /\ arr[i] # None THEN arr[i] ELSE Num(dflt)

\* one iteration of the mapping loop, lines 156-169
MapDay(daily, i) ==
    LET t_max == ValueOr(daily.temperature_2m_max, i, 70000).v
        t_min == ValueOr(daily.temperature_2m_min, i, 55000).v
        p     == ValueOr(daily.precipitation_sum, i, 0).v
        c     == get_weather_condition(t_max, p)
    IN  [date          |-> daily.time[i],
         temp_max      |-> round1(t_max),
         temp_min      |-> round1(t_min),
         temp_mean     |-> 100 * RoundDiv(t_max + t_min, 200),
         precipitation |-> round2(p),
         condition     |-> c.condition,
         icon          |-> c.icon]

\* a value on which a comparison or round() of the mapping loop raises TypeError
RaisesInMapping(daily) ==
    \E i \in 1..Len(daily.time) :
        \/ ValueOr(daily.temperature_2m_max, i, 70000).json # "number"
        \/ ValueOr(daily.temperature_2m_min, i, 55000).json # "number"
        \/ ValueOr(daily.precipitation_sum, i, 0).json # "number"

\* fetch_weather_forecast, given the outcome o of client.get and the clock
fetch_weather_forecast(o, clock) ==
    IF o.kind # "ok" THEN
        \* TimeoutException, HTTPStatusError, or any Exception (response.json(), data.get)
        [fallback |-> TRUE, weather |-> generate_simulated_weather(clock)]
    ELSE IF o.daily.time = <<>> THEN
        [fallback |-> TRUE, weather |-> generate_simulated_weather(clock)]
    ELSE IF RaisesInMapping(o.daily) THEN
        [fallback |-> TRUE, weather |-> generate_simulated_weather(clock)]
    ELSE
        [fallback |-> FALSE,
         weather  |-> [i \in 1..Len(o.daily.time) |-> MapDay(o.daily, i)]]

----------------------------------------------------------------------------
(* Feature Builder *)

\* The free name `today` of prepare_features (line 229).  The function has no
\* local or parameter of that name and the module binds none, so the lookup
\* raises NameError.
global_today_bound == [bound |-> TRUE, value |-> now]

global_today == [bound |-> FALSE, value |-> 0]

\* sin(2*pi*n/period) and cos(2*pi*n/period), kept as terms
TrigTerm(f, n, period) == <<f, n, period>>

\* the row dict of lines 231-240
FeatureRow(weather, date) ==
    [Date        |-> date,
     temp_mean   |-> weather.temp_mean,
     temp_max    |-> weather.temp_max,
     temp_min    |-> weather.temp_min,
     precip_total |-> weather.precipitation,
     day_of_week |-> weekday(date),
     month       |-> 1,
     is_weekend  |-> IF weekday(date) >= 5 THEN 1 ELSE 0]

\* Series.rolling(n, min_periods=1).mean() at position j
RollingMean(s, n, j) == Mean(SubSeq(s, Max(1, j - n + 1), j))

\* lines 245-272: the broadcast and derived columns added to row j of base
WithDerivedColumns(base, j, historical_df) ==
    LET avg_production == Mean(historical_df)
        recent_avg     == Mean(LastN(historical_df, 7))
        recent_std     == <<"std", LastN(historical_df, 14)>>
        temps          == [k \in 1..Len(base) |-> base[k].temp_max]
        b              == base[j]
    IN  [Date |-> b.Date, temp_mean |-> b.temp_mean, temp_max |-> b.temp_max,
         temp_min |-> b.temp_min, precip_total |-> b.precip_total,
         day_of_week |-> b.day_of_week, month |-> b.month, is_weekend |-> b.is_weekend,
         prod_lag1 |-> recent_avg, prod_lag2 |-> recent_avg, prod_lag3 |-> recent_avg,
         prod_lag7 |-> recent_avg, prod_lag14 |-> avg_production,
         prod_lag30 |-> avg_production,
         prod_rolling_mean_3 |-> recent_avg, prod_rolling_mean_7 |-> recent_avg,
         prod_rolling_mean_14 |-> avg_production, prod_rolling_mean_30 |-> avg_production,
         prod_rolling_std_7 |-> recent_std, prod_rolling_std_14 |-> recent_std,
         temp_rolling_mean_7 |-> RollingMean(temps, 7, j),
         temp_rolling_mean_14 |-> RollingMean(temps, 14, j),
         day_sin |-> TrigTerm("sin", b.Date, 365), day_cos |-> TrigTerm("cos", b.Date, 365),
         dow_sin |-> TrigTerm("sin", b.day_of_week, 7),
         dow_cos |-> TrigTerm("cos", b.day_of_week, 7)]

\* index of the first record of wd whose date strptime rejects, 0 if none
FirstBadDate(wd) ==
    IF \E i \in 1..Len(wd) : ~strptime(wd[i].date).ok
    THEN CHOOSE i \in 1..Len(wd) :
            /\ ~strptime(wd[i].date).ok
            /\ \A k \in 1..(i - 1) : strptime(wd[k].date).ok
    ELSE 0

\* prepare_features: [raised, exc, rows]; rows is the returned frame
prepare_features(wd, historical_df) ==
    LET bad == FirstBadDate(wd)
    IN  IF wd # <<>> /\ bad = 1 THEN
            [raised |-> TRUE, exc |-> "ValueError", rows |-> <<>>]       \* line 228
        ELSE IF wd # <<>> /\ ~global_today.bound THEN
            [raised |-> TRUE, exc |-> "NameError", rows |-> <<>>]        \* line 229
        ELSE IF bad # 0 THEN
            [raised |-> TRUE, exc |-> "ValueError", rows |-> <<>>]       \* line 228
        ELSE
            LET kept == SelectSeq(wd, LAMBDA w : ~(strptime(w.date).day < global_today.value))
                base == [k \in 1..Len(kept) |-> FeatureRow(kept[k], strptime(kept[k].date).day)]
            IN  IF base = <<>> THEN
                    \* an empty frame has no 'temp_max' column (line 263)
                    [raised |-> TRUE, exc |-> "KeyError", rows |-> <<>>]
                ELSE
                    [raised |-> FALSE, exc |-> "",
                     rows |-> [j \in 1..Len(base) |->
                                  WithDerivedColumns(base, j, historical_df)]]

----------------------------------------------------------------------------
(* Predictor *)

\* feature_columns.pkl: the ordered names the model was trained on
TrainedFeatures == <<
    "temp_mean", "temp_max", "temp_min", "precip_total", "day_of_week", "month",
    "is_weekend", "prod_lag1", "prod_lag2", "prod_lag3", "prod_lag7", "prod_lag14",
    "prod_lag30", "prod_rolling_mean_3", "prod_rolling_mean_7", "prod_rolling_mean_14",
    "prod_rolling_mean_30", "prod_rolling_std_7", "prod_rolling_std_14",
    "temp_rolling_mean_7", "temp_rolling_mean_14", "day_sin", "day_cos", "dow_sin",
    "dow_cos" >>

\* The regression artifact is opaque to main.py.  Two stand-ins: one that
\* saturates far above the plausible range and one that follows temp_max.
ModelPredict(m, x) ==
    IF m = "gb_saturating" THEN 999000 ELSE x.temp_max \div 5

HeuristicDemand_wide_clamp(weather, date) ==
    LET temp_effect    == (weather.temp_max - 65000) * 12
        precip_effect  == IF weather.precipitation > 100 THEN -200000 ELSE 0
        weekend_effect == IF weekday(date) >= 5 THEN 50000 ELSE 0
        demand         == 1250000 + temp_effect + precip_effect + weekend_effect
    IN  Max(400000, Min(4000000, demand))

\* generate_simulated_predictions for one record; demand is carried in
\* hundred-thousandths (1e-5 MG) so that 0.12 * (temp_max - 65) is exact
HeuristicDemand(weather, date) ==
    LET base_demand    == 1250000
        temp_effect    == (weather.temp_max - 65000) * 12
        precip_effect  == IF weather.precipitation > 100 THEN -200000 ELSE 0
        weekend_effect == IF weekday(date) >= 5 THEN 50000 ELSE 0
        demand         == base_demand + temp_effect + precip_effect + weekend_effect
    IN  Max(800000, Min(2500000, demand))

SimulatedResult(weather, date) ==
    LET demand == HeuristicDemand(weather, date)
        lower  == demand - 150000
        upper  == demand + 150000
        vs_avg == RoundDiv((demand - 1390000) * 100, 1390000)
    IN  [demand      |-> 10 * RoundDiv(demand, 1000),
         lower_bound |-> 10 * RoundDiv(Max(0, lower), 1000),
         upper_bound |-> 10 * RoundDiv(upper, 1000),
         vs_average  |-> vs_avg]

\* generate_simulated_predictions: strptime of line 318 is outside any try
generate_simulated_predictions(wd) ==
    IF FirstBadDate(wd) # 0 THEN
        [raised |-> TRUE, exc |-> "ValueError", results |-> <<>>]
    ELSE
        [raised |-> FALSE, exc |-> "",
         results |-> [i \in 1..Len(wd) |-> SimulatedResult(wd[i], strptime(wd[i].date).day)]]

\* lines 292-303 for one model output (milli-MG)
ModelResult(raw, rstd, hist) ==
    LET p      == Max(4000, Min(40000, raw))
        lower  == p * 100 - 128 * rstd          \* 1e-5 MG
        upper  == p * 100 + 128 * rstd
        vs_avg == RoundDiv((p * Len(hist) - Sum(hist)) * 100, Sum(hist))
    IN  [demand      |-> round2(p),
         lower_bound |-> 10 * RoundDiv(Max(0, lower), 1000),
         upper_bound |-> 10 * RoundDiv(upper, 1000),
         vs_average  |-> vs_avg]

\* generate_predictions: path is "simulated" (line 281), "model" (line 305)
\* or "fallback" (line 309); raised means the exception leaves the function
generate_predictions(wd) ==
    LET sim == generate_simulated_predictions(wd)
        viaHeuristic(path, exc) ==
            [path |-> path, caught |-> exc, raised |-> sim.raised, exc |-> sim.exc,
             pred_df |-> <<>>, predictions |-> <<>>, results |-> sim.results]
    IN  IF ~MODEL_LOADED THEN viaHeuristic("simulated", "")
        ELSE
            LET pf == prepare_features(wd, historical_data)
            IN  IF pf.raised THEN viaHeuristic("fallback", pf.exc)
                ELSE IF \E c \in {feature_columns[k] : k \in 1..Len(feature_columns)} :
                            c \notin DOMAIN pf.rows[1]
                     THEN viaHeuristic("fallback", "KeyError")             \* line 285
                ELSE
                    LET predictions == [j \in 1..Len(pf.rows) |->
                                           ModelPredict(model, pf.rows[j])]
                        n == Min(Len(predictions), Len(wd))                 \* zip, line 292
                    IN  [path |-> "model", caught |-> "", raised |-> FALSE, exc |-> "",
                         pred_df |-> pf.rows, predictions |-> predictions,
                         results |-> [i \in 1..n |->
                             ModelResult(predictions[i], residual_std, historical_data)]]

----------------------------------------------------------------------------
(* Response Assembler *)

\* lines 364-403 for one (weather, prediction) pair whose date is not past
DayForecast(weather, prediction, date, today_) ==
    LET is_today == (date = today_)
        dl == get_demand_level(prediction.demand)
    IN  [date         |-> weather.date,
         day_name     |-> IF is_today THEN "TODAY" ELSE DayAbbrev[weekday(date) + 1],
         day_number   |-> date,
         month        |-> "Jan",
         is_today     |-> is_today,
         demand       |-> prediction.demand,
         lower_bound  |-> prediction.lower_bound,
         upper_bound  |-> prediction.upper_bound,
         demand_level |-> dl.level,
         demand_color |-> dl.color,
         weather      |-> weather,
         vs_average   |-> prediction.vs_average,
         factors      |->
            [temperature   |-> IF weather.temp_max > 75000 THEN "high"
                               ELSE IF weather.temp_max < 60000 THEN "low" ELSE "moderate",
             precipitation |-> IF weather.precipitation > 50 THEN "yes" ELSE "no",
             day_type      |-> IF weekday(date) >= 5 THEN "weekend" ELSE "weekday"]]

AssembleForecasts_skips_today(wd, predictions, today_) ==
    LET n    == Min(Len(wd), Len(predictions))
        idx  == [i \in 1..n |-> i]
        keep == SelectSeq(idx, LAMBDA i : ~(strptime(wd[i].date).day <= today_))
    IN  IF FirstBadDate(SubSeq(wd, 1, n)) # 0 THEN [raised |-> TRUE, forecasts |-> <<>>]
        ELSE [raised |-> FALSE,
              forecasts |-> [k \in 1..Len(keep) |->
                  DayForecast(wd[keep[k]], predictions[keep[k]],
                              strptime(wd[keep[k]].date).day, today_)]]

\* the loop of lines 363-403 over zip(weather_data, predictions)
AssembleForecasts(wd, predictions, today_) ==
    LET n    == Min(Len(wd), Len(predictions))
        zipd == SubSeq(wd, 1, n)
        idx  == [i \in 1..n |-> i]
        keep == SelectSeq(idx, LAMBDA i : ~(strptime(wd[i].date).day < today_))
    IN  IF FirstBadDate(zipd) # 0 THEN [raised |-> TRUE, forecasts |-> <<>>]
        ELSE [raised |-> FALSE,
              forecasts |-> [k \in 1..Len(keep) |->
                  DayForecast(wd[keep[k]], predictions[keep[k]],
                              strptime(wd[keep[k]].date).day, today_)]]

NoPred == [path |-> "", caught |-> "", raised |-> FALSE, exc |-> "",
           pred_df |-> <<>>, predictions |-> <<>>, results |-> <<>>]

NoResponse == [status |-> 0, route |-> "", forecasts |-> <<>>, last_updated |-> 0,
               model_type |-> "", r_squared |-> "", mape_percent |-> "",
               confidence_interval |-> "", model_loaded |-> FALSE, features_count |-> 0]

\* an exception that leaves the handler: the framework answers 500
ServerError == [NoResponse EXCEPT !.status = 500, !.route = "/api/forecast"]

\* lines 405-414
ForecastResponse(fc, clock) ==
    [NoResponse EXCEPT
        !.status = 200, !.route = "/api/forecast",
        !.forecasts = fc, !.last_updated = clock,
        !.r_squared = IF MODEL_LOADED THEN "0.94" ELSE "None",
        !.mape_percent = IF MODEL_LOADED THEN "3.29" ELSE "None",
        !.confidence_interval = "80%",
        !.model_type = IF MODEL_LOADED THEN "Gradient Boosting" ELSE "Simulated"]

----------------------------------------------------------------------------
(* What the weather provider may deliver *)

BadDateString == [form |-> "MM/DD/YYYY", day |-> 19]

DateStrings == {strftime(d) : d \in ProviderDays} \cup {BadDateString}

\* (max, min, precipitation) of one provider day, raw: more decimals than the
\* service keeps, nulls, and a string where a number belongs
Readings == <<
    <<Num(56600),  Num(41000), Num(0)>>,
    <<Num(77500),  Num(60000), Num(200)>>,
    <<Num(90000),  Num(71000), Num(0)>>,
    <<Num(93900),  Num(75000), Num(600)>>,
    <<Num(200000), Num(90000), Num(0)>>,
    <<Num(60800),  Num(44040), Num(0)>>,
    <<Num(94100),  None,       Num(50)>>,
    <<Num(85040),  Num(60000), Num(0)>>,
    <<Num(55000),  Num(40000), Num(104)>>,
    <<Num(-40000), Num(-51000), None>>,
    <<None,        Num(50000), Num(100)>>,
    <<NotANumber,  Num(50000), Num(0)>> >>

TimeArrays == UNION {[1..n -> DateStrings] : n \in 0..MaxDays}

\* the arrays of `daily`: day i reads Readings[first + i - 1] (cyclically); the
\* value arrays are `short` entries shorter than `time`
Daily(time, first, short) ==
    LET len == Max(0, Len(time) - short)
        rd(i) == Readings[((first + i - 2) % Len(Readings)) + 1]
    IN  [time               |-> time,
         temperature_2m_max |-> [i \in 1..len |-> rd(i)[1]],
         temperature_2m_min |-> [i \in 1..len |-> rd(i)[2]],
         precipitation_sum  |-> [i \in 1..len |-> rd(i)[3]]]

EmptyDaily == Daily(<<>>, 1, 0)

Failure(kind) == [kind |-> kind, daily |-> EmptyDaily]

ProviderOutcomes ==
    {Failure("timeout"), Failure("http_error"), Failure("malformed")}
    \cup {[kind |-> "ok", daily |-> Daily(t, f, s)] :
            t \in TimeArrays, f \in 1..Len(Readings), s \in 0..1}

\* the outcomes used when requests run interleaved
FewOutcomes ==
    {Failure("timeout"),
     [kind |-> "ok", daily |-> Daily(<<strftime(18), strftime(20)>>, 3, 0)],
     [kind |-> "ok", daily |-> Daily(<<BadDateString>>, 1, 0)]}

----------------------------------------------------------------------------
(* The service *)

\* state after the module has been imported (lines 44-56)
Init ==
    /\ MODEL_LOADED \in BOOLEAN
    /\ model \in (IF MODEL_LOADED THEN {"gb_saturating", "gb_linear"} ELSE {""})
    /\ scaler = (IF MODEL_LOADED THEN "feature_scaler" ELSE "")
    /\ feature_columns = (IF MODEL_LOADED THEN TrainedFeatures ELSE <<>>)
    /\ residual_std = (IF MODEL_LOADED THEN 1100 ELSE 0)
    /\ historical_data = (IF MODEL_LOADED THEN <<13200, 14100, 14400>> ELSE <<>>)
    /\ now = 19
    /\ pc = [r \in Requests |-> "idle"]
    /\ endpoint = [r \in Requests |-> ""]
    /\ outcome = [r \in Requests |-> Failure("none")]
    /\ sim_today = [r \in Requests |-> 0]
    /\ weather_data = [r \in Requests |-> <<>>]
    /\ pred = [r \in Requests |-> NoPred]
    /\ today = [r \in Requests |-> 0]
    /\ forecasts = [r \in Requests |-> <<>>]
    /\ response = [r \in Requests |-> NoResponse]

\* midnight passes at UTC-6
Tick ==
    /\ now + 1 \in ClockDays
    /\ now' = now + 1
    /\ UNCHANGED <<shared, pc, locals>>

\* GET /
root(r) ==
    /\ pc[r] = "idle"
    /\ pc' = [pc EXCEPT ![r] = "done"]
    /\ endpoint' = [endpoint EXCEPT ![r] = "/"]
    /\ response' = [response EXCEPT ![r] =
          [NoResponse EXCEPT !.status = 200, !.route = "/", !.model_loaded = MODEL_LOADED]]
    /\ UNCHANGED <<shared, now, outcome, sim_today, weather_data, pred, today, forecasts>>

\* GET /api/health
health_check(r) ==
    /\ pc[r] = "idle"
    /\ pc' = [pc EXCEPT ![r] = "done"]
    /\ endpoint' = [endpoint EXCEPT ![r] = "/api/health"]
    /\ response' = [response EXCEPT ![r] =
          [NoResponse EXCEPT !.status = 200, !.route = "/api/health",
                             !.model_loaded = MODEL_LOADED, !.last_updated = now,
                             !.features_count =
                                 IF MODEL_LOADED THEN Len(feature_columns) ELSE 0]]
    /\ UNCHANGED <<shared, now, outcome, sim_today, weather_data, pred, today, forecasts>>

\* GET /api/forecast up to `await client.get(...)` (line 140)
get_forecast_start(r) ==
    /\ pc[r] = "idle"
    /\ pc' = [pc EXCEPT ![r] = "fetching"]
    /\ endpoint' = [endpoint EXCEPT ![r] = "/api/forecast"]
    /\ UNCHANGED <<shared, now, outcome, sim_today, weather_data, pred, today, forecasts,
                   response>>

\* lines 141-182: the provider call ends with outcome o; the coroutine then
\* suspends while the client is closed
get_forecast_fetched(r, outcomes) ==
    /\ pc[r] = "fetching"
    /\ \E o \in outcomes :
        LET fw == fetch_weather_forecast(o, now)
        IN  /\ outcome' = [outcome EXCEPT ![r] = o]
            /\ sim_today' = [sim_today EXCEPT ![r] = IF fw.fallback THEN now ELSE 0]
            /\ weather_data' = [weather_data EXCEPT ![r] = fw.weather]
    /\ pc' = [pc EXCEPT ![r] = "fetched"]
    /\ UNCHANGED <<shared, now, endpoint, pred, today, forecasts, response>>

get_forecast_assemble_disables_model(r) ==
    /\ pc[r] = "fetched"
    /\ LET gp  == generate_predictions(weather_data[r])
           asm == AssembleForecasts(weather_data[r], gp.results, now)
       IN  /\ pred' = [pred EXCEPT ![r] = gp]
           /\ MODEL_LOADED' = (MODEL_LOADED /\ gp.path # "fallback")
           /\ IF gp.raised \/ asm.raised THEN
                 /\ pc' = [pc EXCEPT ![r] = "done"]
                 /\ response' = [response EXCEPT ![r] = ServerError]
                 /\ UNCHANGED <<today, forecasts>>
              ELSE
                 /\ pc' = [pc EXCEPT ![r] = "assembled"]
                 /\ today' = [today EXCEPT ![r] = now]
                 /\ forecasts' = [forecasts EXCEPT ![r] = asm.forecasts]
                 /\ UNCHANGED response
    /\ UNCHANGED <<model, scaler, feature_columns, residual_std, historical_data,
                   now, endpoint, outcome, sim_today, weather_data>>

\* lines 357-403: predictions, the clock reading of line 360, the loop
get_forecast_assemble(r) ==
    /\ pc[r] = "fetched"
    /\ LET gp  == generate_predictions(weather_data[r])
           asm == AssembleForecasts(weather_data[r], gp.results, now)
       IN  /\ pred' = [pred EXCEPT ![r] = gp]
           /\ IF gp.raised THEN
                 /\ pc' = [pc EXCEPT ![r] = "done"]
                 /\ response' = [response EXCEPT ![r] = ServerError]
                 /\ UNCHANGED <<today, forecasts>>
              ELSE IF asm.raised THEN
                 /\ pc' = [pc EXCEPT ![r] = "done"]
                 /\ response' = [response EXCEPT ![r] = ServerError]
                 /\ today' = [today EXCEPT ![r] = now]
                 /\ UNCHANGED forecasts
              ELSE
                 /\ pc' = [pc EXCEPT ![r] = "assembled"]
                 /\ today' = [today EXCEPT ![r] = now]
                 /\ forecasts' = [forecasts EXCEPT ![r] = asm.forecasts]
                 /\ UNCHANGED response
    /\ UNCHANGED <<shared, now, endpoint, outcome, sim_today, weather_data>>

\* lines 405-414: the envelope, with the clock reading of line 407
get_forecast_return(r) ==
    /\ pc[r] = "assembled"
    /\ pc' = [pc EXCEPT ![r] = "done"]
    /\ response' = [response EXCEPT ![r] = ForecastResponse(forecasts[r], now)]
    /\ UNCHANGED <<shared, now, endpoint, outcome, sim_today, weather_data, pred, today,
                   forecasts>>

\* the response has been sent; the request's frame is gone
Deliver(r) ==
    /\ pc[r] = "done"
    /\ pc' = [pc EXCEPT ![r] = "idle"]
    /\ endpoint' = [endpoint EXCEPT ![r] = ""]
    /\ outcome' = [outcome EXCEPT ![r] = Failure("none")]
    /\ sim_today' = [sim_today EXCEPT ![r] = 0]
    /\ weather_data' = [weather_data EXCEPT ![r] = <<>>]
    /\ pred' = [pred EXCEPT ![r] = NoPred]
    /\ today' = [today EXCEPT ![r] = 0]
    /\ forecasts' = [forecasts EXCEPT ![r] = <<>>]
    /\ response' = [response EXCEPT ![r] = NoResponse]
    /\ UNCHANGED <<shared, now>>

\* one request at a time, any provider outcome
Next ==
    \/ Tick
    \/ root(1)
    \/ health_check(1)
    \/ get_forecast_start(1)
    \/ get_forecast_fetched(1, ProviderOutcomes)
    \/ get_forecast_assemble(1)
    \/ get_forecast_return(1)
    \/ Deliver(1)

Spec == Init /\ [][Next]_vars

\* requests interleaved at their suspension points
NextConcurrent ==
    \/ Tick
    \/ \E r \in Requests :
        \/ root(r)
        \/ health_check(r)
        \/ get_forecast_start(r)
        \/ get_forecast_fetched(r, FewOutcomes)
        \/ get_forecast_assemble(r)
        \/ get_forecast_return(r)
        \/ Deliver(r)

SpecConcurrent == Init /\ [][NextConcurrent]_vars

----------------------------------------------------------------------------
(* Properties *)

ForecastRequests == {r \in Requests : endpoint[r] = "/api/forecast"}

\* the request has a ForecastResponse in hand
Answered(r) ==
    /\ r \in ForecastRequests
    /\ pc[r] = "done"
    /\ response[r].status = 200

\* generate_predictions has returned to get_forecast
Predicted(r) ==
    /\ r \in ForecastRequests
    /\ pc[r] \in {"assembled", "done"}
    /\ pred[r].path # ""
    /\ ~pred[r].raised

DayOf(s) == strptime(s).day

AllDatesParse(wd) == \A i \in 1..Len(wd) : strptime(wd[i].date).ok

\* C1: every GET /api/forecast ends in a ForecastResponse, whatever the
\* provider call produced and whether or not the model is loaded.
C1_AlwaysForecast ==
    \A r \in ForecastRequests : pc[r] = "done" => response[r].status = 200

\* C2: with the artifacts loaded and a non-empty weather sequence,
\* generate_predictions returns the model-backed result for every day (raw
\* output clamped to [4.0, 40.0], bounds at 1.28 residual_std, lower floored
\* at 0) and does not use the heuristic.
C2_ModelBacked ==
    \A r \in ForecastRequests :
        (/\ MODEL_LOADED
         /\ pc[r] \in {"assembled", "done"}
         /\ weather_data[r] # <<>>
         /\ AllDatesParse(weather_data[r]))
        => /\ pred[r].path = "model"
           /\ Len(pred[r].results) = Len(weather_data[r])
           /\ \A i \in 1..Len(pred[r].results) :
                LET raw == pred[r].predictions[i]
                    d   == IF raw < 4000 THEN 4000 ELSE IF raw > 40000 THEN 40000 ELSE raw
                    res == pred[r].results[i]
                IN  /\ res.demand = d
                    /\ res.lower_bound =
                         10 * RoundDiv(Max(0, d * 100 - 128 * residual_std), 1000)
                    /\ res.upper_bound = 10 * RoundDiv(d * 100 + 128 * residual_std, 1000)

\* C3: after a failed provider call the response holds exactly 10 entries,
\* the simulated sequence starting at the assembler's today, each with the
\* condition of the pattern table at its position.
C3_TenSimulatedEntries ==
    \A r \in ForecastRequests :
        (pc[r] = "done" /\ sim_today[r] # 0)
        => /\ response[r].status = 200
           /\ Len(response[r].forecasts) = 10
           /\ \A i \in 1..Len(response[r].forecasts) :
                /\ i <= Len(patterns)
                /\ response[r].forecasts[i].date = strftime(today[r] + (i - 1))
                /\ response[r].forecasts[i].weather.condition = patterns[i].condition
           /\ response[r].forecasts[1].is_today

\* C4: the forecasts of a response are exactly the weather records dated
\* today or later, in the order of the weather sequence, none dated before
\* today, and is_today marks exactly the entries dated today.
C4_PastDatesFiltered ==
    \A r \in Requests :
        Answered(r) =>
            LET fc == response[r].forecasts
                t  == today[r]
            IN  /\ \A k \in 1..Len(fc) : DayOf(fc[k].date) >= t
                /\ [k \in 1..Len(fc) |-> fc[k].weather]
                     = SelectSeq(weather_data[r], LAMBDA w : DayOf(w.date) >= t)
                /\ \A k \in 1..Len(fc) : fc[k].is_today <=> (DayOf(fc[k].date) = t)

\* a response whose weather sequence held a past date, today and nothing else
C4_Witness ==
    \E r \in Requests :
        /\ Answered(r)
        /\ Len(weather_data[r]) = 2
        /\ \E i \in 1..2 : DayOf(weather_data[r][i].date) < today[r]
        /\ Len(response[r].forecasts) = 1
        /\ response[r].forecasts[1].is_today

\* C5: every weather record the fetcher returns carries the condition and
\* icon that get_weather_condition gives for its own temp_max and
\* precipitation (the threshold table is restated here).
C5_ConditionFollowsRule ==
    \A r \in ForecastRequests :
        pc[r] \in {"fetched", "assembled", "done"} =>
            \A i \in 1..Len(weather_data[r]) :
                LET w == weather_data[r][i]
                    c == IF w.precipitation > 500 THEN <<"Rainy", "cloud_rain">>
                         ELSE IF w.precipitation > 100 THEN <<"Showers", "sun_rain">>
                         ELSE IF w.temp_max > 85000 THEN <<"Hot", "sun">>
                         ELSE IF w.temp_max > 75000 THEN <<"Warm", "sun">>
                         ELSE IF w.temp_max > 65000 THEN <<"Mild", "sun_cloud">>
                         ELSE IF w.temp_max > 50000 THEN <<"Cool", "cloud">>
                         ELSE <<"Cold", "snowflake">>
                IN  w.condition = c[1] /\ w.icon = c[2]

\* C6: for 1 to 10 today-or-future days prepare_features returns normally,
\* one row per day, every row holding every trained feature column.
C6_FeaturesBuilt ==
    \A r \in ForecastRequests :
        (/\ MODEL_LOADED
         /\ pc[r] \in {"assembled", "done"}
         /\ Len(weather_data[r]) \in 1..10
         /\ AllDatesParse(weather_data[r])
         /\ \A i \in 1..Len(weather_data[r]) : DayOf(weather_data[r][i].date) >= today[r])
        => /\ pred[r].caught = ""
           /\ Len(pred[r].pred_df) = Len(weather_data[r])
           /\ \A j \in 1..Len(pred[r].pred_df) :
                \A k \in 1..Len(feature_columns) :
                    feature_columns[k] \in DOMAIN pred[r].pred_df[j]

\* the closed form of the heuristic, in 1e-5 MG, before any rounding
C7_ClosedForm(w) ==
    LET raw == 1250000 + 12 * (w.temp_max - 65000)
                 + (IF w.precipitation > 100 THEN -200000 ELSE 0)
                 + (IF weekday(DayOf(w.date)) \in {5, 6} THEN 50000 ELSE 0)
    IN  IF raw < 800000 THEN 800000 ELSE IF raw > 2500000 THEN 2500000 ELSE raw

HeuristicResults(r) ==
    IF Predicted(r) /\ pred[r].path \in {"simulated", "fallback"}
    THEN 1..Len(pred[r].results) ELSE {}

\* C7 as stated: the returned demand is the clamped closed form itself, the
\* bounds are demand -/+ 1.5 and vs_average = round((demand / 13.9 - 1) 100)
\* of that returned demand.
C7_HeuristicAsStated ==
    \A r \in Requests : \A i \in HeuristicResults(r) :
        LET res == pred[r].results[i]
        IN  /\ res.demand * 100 = C7_ClosedForm(weather_data[r][i])
            /\ res.demand >= 8000 /\ res.demand <= 25000
            /\ res.lower_bound = res.demand - 1500
            /\ res.upper_bound = res.demand + 1500
            /\ res.vs_average = RoundDiv((res.demand * 100 - 1390000) * 100, 1390000)

\* C7 (amended): with d the clamped closed form, the returned demand is d
\* rounded to 2 decimals and lies in [8.0, 25.0], the bounds are d - 1.5 and
\* d + 1.5 rounded to 2 decimals, and vs_average = round((d / 13.9 - 1) 100)
\* computed from the unrounded d.
C7_HeuristicRounded ==
    \A r \in Requests : \A i \in HeuristicResults(r) :
        LET res == pred[r].results[i]
            d   == C7_ClosedForm(weather_data[r][i])
        IN  /\ res.demand = 10 * RoundDiv(d, 1000)
            /\ res.demand >= 8000 /\ res.demand <= 25000
            /\ res.lower_bound = 10 * RoundDiv(d - 150000, 1000)
            /\ res.upper_bound = 10 * RoundDiv(d + 150000, 1000)
            /\ res.vs_average = RoundDiv((d - 1390000) * 100, 1390000)

\* temp_max 93.9 with rain on a weekday: d = 13.968, returned 13.97, and
\* vs_average 0 where the returned demand would give 1; beside it a day at
\* the upper clamp
C7_Witness ==
    \E r \in Requests : \E i, j \in HeuristicResults(r) :
        /\ C7_ClosedForm(weather_data[r][i]) = 1396800
        /\ pred[r].results[i].demand = 13970
        /\ pred[r].results[i].vs_average = 0
        /\ pred[r].results[j].demand = 25000

\* C8: every forecast entry's demand_level and demand_color classify its
\* demand: below 12 Low, from 12 and below 16 Moderate, from 16 High.
C8_DemandClassified ==
    \A r \in ForecastRequests : \A k \in 1..Len(forecasts[r]) :
        LET e == forecasts[r][k]
        IN  /\ e.demand < 12000 => e.demand_level = "Low" /\ e.demand_color = "#22C55E"
            /\ (e.demand >= 12000 /\ e.demand < 16000)
                 => e.demand_level = "Moderate" /\ e.demand_color = "#EAB308"
            /\ e.demand >= 16000 => e.demand_level = "High" /\ e.demand_color = "#EF4444"

\* a response with one entry at exactly 12.0 and one at exactly 16.0
C8_Witness ==
    \E r \in Requests :
        /\ Answered(r)
        /\ \E k \in 1..Len(response[r].forecasts) :
              response[r].forecasts[k].demand = 12000
        /\ \E k \in 1..Len(response[r].forecasts) :
              response[r].forecasts[k].demand = 16000

\* the response request r gets when it runs alone with the provider outcome
\* and the clock readings it had
RunAlone(r) ==
    IF endpoint[r] = "/" THEN
        [NoResponse EXCEPT !.status = 200, !.route = "/", !.model_loaded = MODEL_LOADED]
    ELSE IF endpoint[r] = "/api/health" THEN
        [NoResponse EXCEPT !.status = 200, !.route = "/api/health",
                           !.model_loaded = MODEL_LOADED,
                           !.last_updated = response[r].last_updated,
                           !.features_count = IF MODEL_LOADED THEN Len(feature_columns) ELSE 0]
    ELSE
        LET fw  == fetch_weather_forecast(outcome[r], sim_today[r])
            gp  == generate_predictions(fw.weather)
            asm == AssembleForecasts(fw.weather, gp.results, today[r])
        IN  IF gp.raised \/ asm.raised THEN ServerError
            ELSE ForecastResponse(asm.forecasts, response[r].last_updated)

\* C9: no step of any request changes MODEL_LOADED, the model, the scaler,
\* the feature list, the residual standard deviation or the historical
\* series, and a request that finishes among interleaved requests returns
\* what it returns alone.
C9_NoSharedWrites ==
    [][/\ shared' = shared
       /\ \A r \in Requests : pc[r] = "done" => response[r] = RunAlone(r)]_vars

\* a forecast answered through the caught-exception path while another
\* forecast request is suspended between its fetch and its assembly
C9_Witness ==
    \E r1, r2 \in Requests :
        /\ r1 # r2
        /\ MODEL_LOADED
        /\ Answered(r1) /\ pred[r1].path = "fallback"
        /\ r2 \in ForecastRequests /\ pc[r2] = "fetched"

\* the prediction that belongs to weather record w under what
\* generate_predictions did for request r
BelongsTo(r, w, res) ==
    IF pred[r].path = "model" THEN
        \E j \in 1..Len(pred[r].pred_df) :
            /\ pred[r].pred_df[j].Date = DayOf(w.date)
            /\ pred[r].pred_df[j].temp_max = w.temp_max
            /\ res = ModelResult(ModelPredict(model, pred[r].pred_df[j]),
                                 residual_std, historical_data)
    ELSE res = SimulatedResult(w, DayOf(w.date))

\* C10: generate_predictions returns one prediction per weather record, at
\* the record's index, and each forecast entry carries the prediction that
\* belongs to its own weather record.
C10_Aligned ==
    \A r \in Requests :
        Predicted(r) =>
            /\ Len(pred[r].results) = Len(weather_data[r])
            /\ \A i \in 1..Len(pred[r].results) :
                 BelongsTo(r, weather_data[r][i], pred[r].results[i])
            /\ \A k \in 1..Len(forecasts[r]) :
                 LET e == forecasts[r][k]
                 IN  BelongsTo(r, e.weather,
                               [demand |-> e.demand, lower_bound |-> e.lower_bound,
                                upper_bound |-> e.upper_bound, vs_average |-> e.vs_average])

\* loaded state, a response whose weather sequence began with a past date
C10_Witness ==
    \E r \in Requests :
        /\ MODEL_LOADED
        /\ Answered(r)
        /\ Len(weather_data[r]) >= 2
        /\ DayOf(weather_data[r][1].date) < today[r]
        /\ Len(response[r].forecasts) >= 1
        /\ response[r].forecasts[1].demand # pred[r].results[1].demand

====
